---- MODULE Spec2Model ----
(***************************************************************************)
(* Model of the contrast-comfort scripts:                                  *)
(*   data/generate_dataset.py   luminance, contrast_ratio, the label rule  *)
(*                              and the generation loop                    *)
(*   ml_model/retrain_model.py  the feedback label mapping and the merge   *)
(*   test_api.py                main and its four test phases              *)
(*                                                                         *)
(* Reals.  Python floats are modelled as fixed-point numbers with six      *)
(* decimals: the integer n stands for n / Scale.  Every product and        *)
(* quotient is rounded down to that grid, and is computed in pieces that   *)
(* stay below 2^31, the width of TLC's integers.  x ** 2.4 is computed as  *)
(* x^2 * (x^2)^(1/5), the fifth root by bisection.                         *)
(***************************************************************************)
EXTENDS Integers, Sequences, FiniteSets, TLC

VARIABLES
    \* generate_dataset.py, the functions applied to one colour pair
    fg, bg, lum, ratio, label, fpc,
    \* generate_dataset.py, the generation loop
    rows, iter, gpc, csv,
    \* retrain_model.py
    original, feedback, fb_label, synthetic, combined, rpc,
    \* test_api.py
    apc, idx, passed, failed, health_ok, predict_ok, requests, times, printed,
    summary,
    \* clean_feedback.py
    infile, outfile, cpos, cpc

fnVars == <<fg, bg, lum, ratio, label, fpc>>
genVars == <<rows, iter, gpc, csv>>
retrainVars == <<original, feedback, fb_label, synthetic, combined, rpc>>
apiVars ==
    <<apc, idx, passed, failed, health_ok, predict_ok, requests, times, printed,
      summary>>
cleanVars == <<infile, outfile, cpos, cpc>>
vars == <<fnVars, genVars, retrainVars, apiVars, cleanVars>>

\* Python's None where the value is otherwise True or False.
None == "None"
\* A number not yet computed.
Unset == 0 - 1

\* One unit of the fixed-point grid is 1 / Scale = 1e-6.
Scale == 1000 * 1000

\* floor(a * b / Scale) for fixed-point a, b >= 0 (a, b below about 1.4 * Scale).
FMul(a, b) == (((a \div 1000) * b) + (((a % 1000) * b) \div 1000)) \div 1000

\* Long division, one decimal digit a step: q is the quotient so far, r the
\* remainder, n the number of digits still to produce.
RECURSIVE FDivDigits(_, _, _, _)
FDivDigits(q, r, b, n) ==
    IF n = 0 THEN q
    ELSE FDivDigits(q * 10 + ((r * 10) \div b), (r * 10) % b, b, n - 1)

\* floor(a * Scale / b) for fixed-point a >= 0, b > 0.
FDiv(a, b) == FDivDigits(a \div b, a % b, b, 6)

\* y^5 on the fixed-point grid.
FPow5(y) == FMul(FMul(FMul(y, y), FMul(y, y)), y)

\* The largest y in lo..hi with y^5 <= t (lo always satisfies it).
RECURSIVE FRoot5(_, _, _)
FRoot5(lo, hi, t) ==
    IF lo >= hi THEN lo
    ELSE LET mid == (lo + hi + 1) \div 2
         IN  IF FPow5(mid) <= t THEN FRoot5(mid, hi, t)
                                ELSE FRoot5(lo, mid - 1, t)

\* x ** 2.4 for 0 <= x <= 1.
FPow24(x) == LET x2 == FMul(x, x) IN FMul(x2, FRoot5(0, Scale, x2))

\* The largest channel value: random.randint(0, 255).
MaxChannel == 255

\* Linearize with the gamma branch lost: every channel taken as v / 12.92.
Linearize_LinearOnly(c) == FDiv((c * Scale) \div MaxChannel, 12920000)

\* One channel of luminance(): v / 255.0, then the WCAG piecewise
\* linearisation (v <= 0.03928: v / 12.92, else ((v + 0.055) / 1.055) ** 2.4).
Linearize(c) ==
    LET v == (c * Scale) \div MaxChannel
    IN  IF v <= 39280 THEN FDiv(v, 12920000)
        ELSE FPow24(FDiv(v + 55000, 1055000))

\* Linearize over the whole channel range, computed once.
Linear == [c \in 0..MaxChannel |-> Linearize(c)]

\* luminance with the green weight mistyped, 0.7512 for 0.7152.
luminance_WeightTypo(color) ==
    FMul(212600, Linear[color[1]])
    + FMul(751200, Linear[color[2]])
    + FMul(72200, Linear[color[3]])

\* luminance(r, g, b): the weighted sum of the three linearised channels.
luminance(color) ==
    FMul(212600, Linear[color[1]])
    + FMul(715200, Linear[color[2]])
    + FMul(72200, Linear[color[3]])

Max(a, b) == IF a >= b THEN a ELSE b
Min(a, b) == IF a <= b THEN a ELSE b

\* contrast_ratio without max and min: foreground over background.
contrast_ratio_NoMaxMin(f, b) ==
    FDiv(luminance(f) + 50000, luminance(b) + 50000)

\* contrast_ratio with the offset of the denominator mistyped, 0.005 for 0.05.
contrast_ratio_OffsetTypo(f, b) ==
    LET L1 == luminance(f)
        L2 == luminance(b)
    IN  FDiv(Max(L1, L2) + 50000, Min(L1, L2) + 5000)

\* contrast_ratio(fg, bg) = (max(L1, L2) + 0.05) / (min(L1, L2) + 0.05).
contrast_ratio(f, b) ==
    LET L1 == luminance(f)
        L2 == luminance(b)
    IN  FDiv(Max(L1, L2) + 50000, Min(L1, L2) + 50000)


\* The comfort threshold 4.5 of the label rule, on the fixed-point grid.
Threshold == 4500000

\* The label rule with a strict comparison.
LabelOf_Strict(r) == IF r > Threshold THEN 1 ELSE 0

\* label = 1 if ratio >= 4.5 else 0
LabelOf(r) == IF r >= Threshold THEN 1 ELSE 0

\* The dict appended to rows.
Row(f, b, r, l) ==
    [fg_r |-> f[1], fg_g |-> f[2], fg_b |-> f[3],
     bg_r |-> b[1], bg_g |-> b[2], bg_b |-> b[3],
     contrast_ratio |-> r, label |-> l]

\* One pass of the loop body for the drawn colours f and b.
GeneratedRow(f, b) ==
    LET r == contrast_ratio(f, b) IN Row(f, b, r, LabelOf(r))

(***************************************************************************)
(* Inputs.  random.randint(0, 255) draws any channel in 0..255; the model  *)
(* draws from samples of that range.                                       *)
(***************************************************************************)
\* Channel values: both ends, both sides of the 0.03928 branch (10 and 11
\* of 255), and a mid value.
ChannelSamples == {0, 10, 11, 128, MaxChannel}
SampleColors == ChannelSamples \X ChannelSamples \X ChannelSamples

Black == <<0, 0, 0>>
White == <<MaxChannel, MaxChannel, MaxChannel>>

\* The colours the generation loop draws from in the model.
Palette == {Black, White, <<100, 100, 100>>, <<MaxChannel, 183, 0>>}

\* The number of rows generated: range(5000) in the script.
NumSamples == 3

(***************************************************************************)
(* The idle state of each script: the script is not the one running.       *)
(***************************************************************************)
FnIdle ==
    /\ fg = <<>> /\ bg = <<>> /\ lum = <<>> /\ ratio = Unset /\ label = Unset
    /\ fpc = "idle"
GenIdle == rows = <<>> /\ iter = 0 /\ gpc = "idle" /\ csv = <<>>
RetrainIdle ==
    /\ original = <<>> /\ feedback = <<>> /\ fb_label = <<>> /\ synthetic = <<>>
    /\ combined = <<>> /\ rpc = "idle"
ApiIdle ==
    /\ apc = "idle" /\ idx = 0 /\ passed = 0 /\ failed = 0
    /\ health_ok = None /\ predict_ok = None /\ requests = <<>>
    /\ times = <<>> /\ printed = <<>> /\ summary = <<>>

CleanIdle == infile = <<>> /\ outfile = <<>> /\ cpos = 0 /\ cpc = "idle"

(***************************************************************************)
(* generate_dataset.py: luminance, contrast_ratio and the label rule       *)
(* applied to one pair of colours.                                         *)
(***************************************************************************)
InitFn ==
    /\ fg \in SampleColors /\ bg \in SampleColors
    /\ lum = <<>> /\ ratio = Unset /\ label = Unset
    /\ fpc = "luminance"
    /\ GenIdle /\ RetrainIdle /\ ApiIdle /\ CleanIdle

\* L1 = luminance(*fg); L2 = luminance(*bg)
ApplyLuminance ==
    /\ fpc = "luminance"
    /\ lum' = <<luminance(fg), luminance(bg)>>
    /\ fpc' = "contrast"
    /\ UNCHANGED <<fg, bg, ratio, label, genVars, retrainVars, apiVars, cleanVars>>

\* ratio = contrast_ratio(fg, bg)
ApplyContrast ==
    /\ fpc = "contrast"
    /\ ratio' = contrast_ratio(fg, bg)
    /\ fpc' = "label"
    /\ UNCHANGED <<fg, bg, lum, label, genVars, retrainVars, apiVars, cleanVars>>

\* label = 1 if ratio >= 4.5 else 0
ApplyLabel ==
    /\ fpc = "label"
    /\ label' = LabelOf(ratio)
    /\ fpc' = "done"
    /\ UNCHANGED <<fg, bg, lum, ratio, genVars, retrainVars, apiVars, cleanVars>>

NextFn == ApplyLuminance \/ ApplyContrast \/ ApplyLabel
SpecFn == InitFn /\ [][NextFn]_vars

(***************************************************************************)
(* generate_dataset.py: the generation loop and the save.                  *)
(***************************************************************************)
InitGen ==
    /\ rows = <<>> /\ iter = 0 /\ gpc = "loop" /\ csv = <<>>
    /\ FnIdle /\ RetrainIdle /\ ApiIdle /\ CleanIdle

\* The loop body assigning the new row to rows instead of appending it.
AppendRow_Overwrite(rs, f, b) == <<GeneratedRow(f, b)>>

\* rows after one more pass of the loop body with the colours f and b.
AppendRow(rs, f, b) == Append(rs, GeneratedRow(f, b))

\* for _ in range(5000): draw fg and bg, compute ratio and label, append.
GenerateRow ==
    /\ gpc = "loop"
    /\ iter < NumSamples
    /\ \E f \in Palette, b \in Palette : rows' = AppendRow(rows, f, b)
    /\ iter' = iter + 1
    /\ UNCHANGED <<gpc, csv, fnVars, retrainVars, apiVars, cleanVars>>

\* The range is exhausted.
LoopExit ==
    /\ gpc = "loop"
    /\ iter = NumSamples
    /\ gpc' = "save"
    /\ UNCHANGED <<rows, iter, csv, fnVars, retrainVars, apiVars, cleanVars>>

\* df = pd.DataFrame(rows); df.to_csv("data/color_pairs.csv", index=False)
SaveCsv ==
    /\ gpc = "save"
    /\ csv' = rows
    /\ gpc' = "done"
    /\ UNCHANGED <<rows, iter, fnVars, retrainVars, apiVars, cleanVars>>

NextGen == GenerateRow \/ LoopExit \/ SaveCsv
SpecGen == InitGen /\ [][NextGen]_vars
\* The script is one sequential control flow: a step that can be taken is taken.
FairSpecGen == SpecGen /\ WF_vars(NextGen)

(***************************************************************************)
(* retrain_model.py: the feedback label mapping, the synthetic rows and    *)
(* the merge.  original is data/color_pairs.csv, the table the generation  *)
(* script wrote; feedback is the status column of user_feedback_clean.csv. *)
(***************************************************************************)
\* The longest feedback file of the model.
MaxFeedback == 2

\* The status values of a feedback row: the two the script maps, and one it
\* does not.
Statuses == {"comfortable", "uncomfortable", "neutral"}

\* pandas' NaN, the result of Series.map for a key the dict lacks: a float
\* that is neither 0 nor 1.
NaN == 0 - 999

\* feedback['status'].map({'comfortable': 1, 'uncomfortable': 0}), one value.
MapStatus(s) ==
    IF s = "comfortable" THEN 1
    ELSE IF s = "uncomfortable" THEN 0
    ELSE NaN

\* Tables the generation script can have written.
OriginalTables ==
    {<<>>} \cup {<<GeneratedRow(f, b)>> : f \in Palette, b \in Palette}

\* Feedback files of up to MaxFeedback rows.
FeedbackFiles == UNION {[1..n -> Statuses] : n \in 0..MaxFeedback}

\* np.random.randint(0, 255) draws a channel in 0..254 and
\* np.random.uniform(1, 10) a ratio in [1, 10): the draws of one synthetic
\* row, <<fg, bg, contrast_ratio>>.
SyntheticDraws ==
    {<<Black, <<254, 254, 254>>, Scale>>,
     <<<<254, 254, 254>>, Black, 10 * Scale - 1>>}

InitRetrain ==
    /\ original \in OriginalTables
    /\ feedback \in FeedbackFiles
    /\ fb_label = <<>> /\ synthetic = <<>> /\ combined = <<>>
    /\ rpc = "map"
    /\ FnIdle /\ GenIdle /\ ApiIdle /\ CleanIdle

\* feedback['label'] = feedback['status'].map({...})
MapLabels ==
    /\ rpc = "map"
    /\ fb_label' = [k \in 1..Len(feedback) |-> MapStatus(feedback[k])]
    /\ rpc' = "synthetic"
    /\ UNCHANGED <<original, feedback, synthetic, combined,
                   fnVars, genVars, apiVars, cleanVars>>

\* synthetic_data = pd.DataFrame({...}): one row per feedback row, random
\* colours and ratio, the feedback row's label.
MakeSynthetic ==
    /\ rpc = "synthetic"
    /\ \E draw \in [1..Len(feedback) -> SyntheticDraws] :
          synthetic' = [k \in 1..Len(feedback) |->
                          Row(draw[k][1], draw[k][2], draw[k][3], fb_label[k])]
    /\ rpc' = "merge"
    /\ UNCHANGED <<original, feedback, fb_label, combined,
                   fnVars, genVars, apiVars, cleanVars>>

\* combined = pd.concat([original, synthetic_data], ignore_index=True)
Merge ==
    /\ rpc = "merge"
    /\ combined' = original \o synthetic
    /\ rpc' = "merged"
    /\ UNCHANGED <<original, feedback, fb_label, synthetic,
                   fnVars, genVars, apiVars, cleanVars>>

NextRetrain == MapLabels \/ MakeSynthetic \/ Merge
SpecRetrain == InitRetrain /\ [][NextRetrain]_vars

(***************************************************************************)
(* test_api.py: main and its phases.  True, False and None are the strings *)
(* "True", "False" and "None"; ratios are on the fixed-point grid.         *)
(***************************************************************************)
\* test_cases with the third case's expectation flipped.
test_cases_Flipped ==
    <<[name |-> "High Contrast (White on Black)", fg |-> White, bg |-> Black,
       contrast_ratio |-> 21000000, expected_comfortable |-> "True"],
      [name |-> "Low Contrast (Light Gray on White)", fg |-> <<200, 200, 200>>,
       bg |-> White, contrast_ratio |-> 1500000,
       expected_comfortable |-> "False"],
      [name |-> "Medium Contrast (Button)", fg |-> White,
       bg |-> <<255, 183, 0>>, contrast_ratio |-> 1750000,
       expected_comfortable |-> "True"],
      [name |-> "WCAG AA Compliant", fg |-> Black, bg |-> White,
       contrast_ratio |-> 21000000, expected_comfortable |-> "True"],
      [name |-> "Heading with Large Font", fg |-> <<100, 100, 100>>,
       bg |-> White, contrast_ratio |-> 4200000,
       expected_comfortable |-> None]>>

\* test_cases of test_predict_endpoint.
test_cases ==
    <<[name |-> "High Contrast (White on Black)", fg |-> White, bg |-> Black,
       contrast_ratio |-> 21000000, expected_comfortable |-> "True"],
      [name |-> "Low Contrast (Light Gray on White)", fg |-> <<200, 200, 200>>,
       bg |-> White, contrast_ratio |-> 1500000,
       expected_comfortable |-> "False"],
      [name |-> "Medium Contrast (Button)", fg |-> White,
       bg |-> <<255, 183, 0>>, contrast_ratio |-> 1750000,
       expected_comfortable |-> "False"],
      [name |-> "WCAG AA Compliant", fg |-> Black, bg |-> White,
       contrast_ratio |-> 21000000, expected_comfortable |-> "True"],
      [name |-> "Heading with Large Font", fg |-> <<100, 100, 100>>,
       bg |-> White, contrast_ratio |-> 4200000,
       expected_comfortable |-> None]>>

\* error_cases of test_error_handling.
error_cases ==
    <<[name |-> "Missing required fields", should_fail |-> TRUE],
      [name |-> "Invalid contrast ratio", should_fail |-> TRUE],
      [name |-> "Invalid color values", should_fail |-> FALSE]>>

\* num_requests of test_performance.
num_requests == 10

\* What one HTTP request can come to: a response with a status code and, for
\* a 200 whose body parses, the JSON's 'comfortable'; or an exception.
\* "BadJSON" is a 200 whose response.json() raises.
Responses ==
    {[kind |-> "response", status |-> 200, comfortable |-> c] :
         c \in {"True", "False", None}}
    \cup {[kind |-> "response", status |-> st, comfortable |-> None] :
              st \in {400, 500}}
    \cup {[kind |-> k, status |-> 0, comfortable |-> None] :
              k \in {"BadJSON", "Timeout", "ConnectionError", "Exception"}}

\* The elapsed time of a request of test_performance, in milliseconds.
ElapsedSamples == {50}

\* The banners main and the phases print, in the order of main.
Banners == <<"health", "predict", "error", "perf", "summary">>

InitApi ==
    /\ apc = "health" /\ idx = 0 /\ passed = 0 /\ failed = 0
    /\ health_ok = None /\ predict_ok = None /\ requests = <<>>
    /\ times = <<>> /\ printed = <<>> /\ summary = <<>>
    /\ FnIdle /\ GenIdle /\ RetrainIdle /\ CleanIdle

\* test_health_check(): True only for a 200 whose JSON parses.
HealthResult(r) ==
    IF r.kind = "response" /\ r.status = 200 THEN "True" ELSE "False"

\* main without the return after a failed health check.
HealthCheck_NoReturn ==
    /\ apc = "health"
    /\ \E r \in Responses : health_ok' = HealthResult(r)
    /\ apc' = "predict"
    /\ printed' = <<"health", "predict">>
    /\ requests' = Append(requests, <<"GET", "/", "health">>)
    /\ UNCHANGED <<idx, passed, failed, predict_ok, times, summary,
                   fnVars, genVars, retrainVars, cleanVars>>

\* health_ok = test_health_check(); if not health_ok: ... return
HealthCheck ==
    /\ apc = "health"
    /\ \E r \in Responses :
          /\ health_ok' = HealthResult(r)
          /\ apc' = IF HealthResult(r) = "True" THEN "predict" ELSE "returned"
          /\ printed' = IF HealthResult(r) = "True"
                        THEN <<"health", "predict">> ELSE <<"health">>
    /\ requests' = Append(requests, <<"GET", "/", "health">>)
    /\ UNCHANGED <<idx, passed, failed, predict_ok, times, summary,
                   fnVars, genVars, retrainVars, cleanVars>>

\* Whether one case of test_predict_endpoint counts as passed for response r.
CasePasses(tc, r) ==
    /\ r.kind = "response"
    /\ r.status = 200
    /\ \/ tc.expected_comfortable = None
       \/ r.comfortable = tc.expected_comfortable

\* The loop body with the handlers of Timeout and of other exceptions not
\* counting the case as failed.
PredictCase_ExceptionUncounted ==
    /\ apc = "predict"
    /\ idx < Len(test_cases)
    /\ \E r \in Responses :
          IF CasePasses(test_cases[idx + 1], r)
          THEN passed' = passed + 1 /\ failed' = failed
          ELSE IF r.kind = "response"
          THEN failed' = failed + 1 /\ passed' = passed
          ELSE failed' = failed /\ passed' = passed
    /\ requests' =
          Append(requests, <<"POST", "/predict", test_cases[idx + 1].name>>)
    /\ idx' = idx + 1
    /\ UNCHANGED <<apc, health_ok, predict_ok, times, printed, summary,
                   fnVars, genVars, retrainVars, cleanVars>>

\* One pass of the loop of test_predict_endpoint.
PredictCase ==
    /\ apc = "predict"
    /\ idx < Len(test_cases)
    /\ \E r \in Responses :
          IF CasePasses(test_cases[idx + 1], r)
          THEN passed' = passed + 1 /\ failed' = failed
          ELSE failed' = failed + 1 /\ passed' = passed
    /\ requests' =
          Append(requests, <<"POST", "/predict", test_cases[idx + 1].name>>)
    /\ idx' = idx + 1
    /\ UNCHANGED <<apc, health_ok, predict_ok, times, printed, summary,
                   fnVars, genVars, retrainVars, cleanVars>>

\* return failed == 0; then main calls test_error_handling().
PredictReturn ==
    /\ apc = "predict"
    /\ idx = Len(test_cases)
    /\ predict_ok' = IF failed = 0 THEN "True" ELSE "False"
    /\ apc' = "error"
    /\ idx' = 0
    /\ printed' = Append(printed, "error")
    /\ UNCHANGED <<passed, failed, health_ok, requests, times, summary,
                   fnVars, genVars, retrainVars, cleanVars>>

\* One pass of the loop of test_error_handling: whatever the response or the
\* exception, only a line is printed.
ErrorCase ==
    /\ apc = "error"
    /\ idx < Len(error_cases)
    /\ \E r \in Responses :
          requests' =
              Append(requests, <<"POST", "/predict", error_cases[idx + 1].name>>)
    /\ idx' = idx + 1
    /\ UNCHANGED <<apc, passed, failed, health_ok, predict_ok, times, printed,
                   summary, fnVars, genVars, retrainVars, cleanVars>>

\* test_error_handling returns True; main calls test_performance().
ErrorReturn ==
    /\ apc = "error"
    /\ idx = Len(error_cases)
    /\ apc' = "perf"
    /\ idx' = 0
    /\ printed' = Append(printed, "perf")
    /\ UNCHANGED <<passed, failed, health_ok, predict_ok, requests, times,
                   summary, fnVars, genVars, retrainVars, cleanVars>>

\* One pass of the loop of test_performance: the elapsed time is recorded
\* unless the request raised.
PerfRequest ==
    /\ apc = "perf"
    /\ idx < num_requests
    /\ \E r \in Responses, e \in ElapsedSamples :
          times' = IF r.kind \in {"response", "BadJSON"}
                   THEN Append(times, e) ELSE times
    /\ requests' = Append(requests, <<"POST", "/predict", "performance">>)
    /\ idx' = idx + 1
    /\ UNCHANGED <<apc, passed, failed, health_ok, predict_ok, printed, summary,
                   fnVars, genVars, retrainVars, cleanVars>>

\* test_performance returns True; main prints the summary and returns.
Summary ==
    /\ apc = "perf"
    /\ idx = num_requests
    /\ printed' = Append(printed, "summary")
    /\ summary' = <<IF health_ok = "True" THEN "PASSED" ELSE "FAILED",
                    IF predict_ok = "True" THEN "PASSED" ELSE "FAILED">>
    /\ apc' = "returned"
    /\ UNCHANGED <<idx, passed, failed, health_ok, predict_ok, requests, times,
                   fnVars, genVars, retrainVars, cleanVars>>

NextApi ==
    \/ HealthCheck
    \/ PredictCase
    \/ PredictReturn
    \/ ErrorCase
    \/ ErrorReturn
    \/ PerfRequest
    \/ Summary
SpecApi == InitApi /\ [][NextApi]_vars

(***************************************************************************)
(* clean_feedback.py: the line-cleaning loop.  A line is the sequence of   *)
(* its characters, each a one-character string; iterating the input file   *)
(* yields the lines with their newline.                                    *)
(***************************************************************************)
\* The most lines of an input file, and the most characters of a line
\* before its newline.
MaxLines == 2
MaxLineLen == 4

\* The characters of the input: a letter, the space and the tab.
Chars == {"a", " ", "\t"}

\* What str.strip() removes.
Whitespace == {" ", "\t", "\n", "\r"}

InputLines ==
    {content \o <<"\n">> :
        content \in UNION {[1..n -> Chars] : n \in 0..MaxLineLen}}

InputFiles == UNION {[1..n -> InputLines] : n \in 0..MaxLines}

\* line.replace("\t", ",")
ReplaceTabs(s) == [i \in 1..Len(s) |-> IF s[i] = "\t" THEN "," ELSE s[i]]

\* s.replace("  ", ","): str.replace scans from the left and replaces each
\* occurrence that does not overlap the one before it.
RECURSIVE ReplaceDoubleSpaces(_)
ReplaceDoubleSpaces(s) ==
    IF Len(s) < 2 THEN s
    ELSE IF s[1] = " " /\ s[2] = " "
         THEN <<",">> \o ReplaceDoubleSpaces(SubSeq(s, 3, Len(s)))
         ELSE <<s[1]>> \o ReplaceDoubleSpaces(Tail(s))

RECURSIVE LStrip(_)
LStrip(s) ==
    IF s # <<>> /\ s[1] \in Whitespace THEN LStrip(Tail(s)) ELSE s

RECURSIVE RStrip(_)
RStrip(s) ==
    IF s # <<>> /\ s[Len(s)] \in Whitespace
    THEN RStrip(SubSeq(s, 1, Len(s) - 1)) ELSE s

\* s.strip()
Strip(s) == RStrip(LStrip(s))

\* clean = line.replace("\t", ",").replace("  ", ",").strip()
Clean(line) == Strip(ReplaceDoubleSpaces(ReplaceTabs(line)))

InitClean ==
    /\ infile \in InputFiles
    /\ outfile = <<>> /\ cpos = 0 /\ cpc = "loop"
    /\ FnIdle /\ GenIdle /\ RetrainIdle /\ ApiIdle

\* for line in infile: ... outfile.write(clean + "\n")
CleanLine ==
    /\ cpc = "loop"
    /\ cpos < Len(infile)
    /\ outfile' = Append(outfile, Clean(infile[cpos + 1]) \o <<"\n">>)
    /\ cpos' = cpos + 1
    /\ UNCHANGED <<infile, cpc, fnVars, genVars, retrainVars, apiVars>>

\* The input is exhausted: the with block closes both files.
CloseFiles ==
    /\ cpc = "loop"
    /\ cpos = Len(infile)
    /\ cpc' = "done"
    /\ UNCHANGED <<infile, outfile, cpos, fnVars, genVars, retrainVars, apiVars>>

NextClean == CleanLine \/ CloseFiles
SpecClean == InitClean /\ [][NextClean]_vars

(***************************************************************************)
(* Every script: a behaviour is one run of one of them.                    *)
(***************************************************************************)
Init == InitFn \/ InitGen \/ InitRetrain \/ InitApi \/ InitClean
Next == NextFn \/ NextGen \/ NextRetrain \/ NextApi \/ NextClean
Spec == Init /\ [][Next]_vars

(***************************************************************************)
(* Properties of generate_dataset.py.                                      *)
(***************************************************************************)
RatioComputed == fpc \in {"label", "done"}
Grey(c) == <<c, c, c>>
Near(a, b, tol) == a - b <= tol /\ b - a <= tol

\* C1: every row the generation loop produced has label 1 if and only if its
\* contrast_ratio is >= 4.5; the boundary is inclusive (4.5 gives 1, 4.499999
\* gives 0), and the label depends on nothing but the ratio.
C1_LabelIffThreshold ==
    /\ \A k \in 1..Len(rows) :
          (rows[k].label = 1) <=> (rows[k].contrast_ratio >= 4500000)
    /\ \A k \in 1..Len(rows) : rows[k].label \in {0, 1}
    /\ LabelOf(4500000) = 1
    /\ LabelOf(4499999) = 0

C1_Witness ==
    /\ gpc = "done"
    /\ \E j \in 1..Len(rows), k \in 1..Len(rows) :
          rows[j].label = 1 /\ rows[k].label = 0

\* C2: for every pair of valid colours the contrast ratio is at least 1.0 and
\* at most 21.0.
C2_RatioRange == RatioComputed => (ratio >= Scale /\ ratio <= 21 * Scale)

C2_Witness ==
    /\ fpc = "done"
    /\ lum[1] < lum[2]
    /\ ratio > Scale /\ ratio < 21 * Scale

\* C3: contrast_ratio is symmetric: the ratio of (fg, bg) is the ratio of
\* (bg, fg), and so is the label.
C3_Symmetric ==
    /\ RatioComputed => ratio = contrast_ratio(bg, fg)
    /\ fpc = "done" => label = LabelOf(contrast_ratio(bg, fg))

C3_Witness == fpc = "done" /\ lum[1] < lum[2] /\ label = 1

\* C4: the contrast ratio of a colour with itself is 1.0, and such a pair is
\* labelled 0.
C4_SameColor ==
    /\ (RatioComputed /\ fg = bg) => ratio = Scale
    /\ (fpc = "done" /\ fg = bg) => label = 0

C4_Witness == fpc = "done" /\ fg = bg /\ fg = Grey(128) /\ ratio = Scale

\* C5: white against black gives 21.0 (within 1e-6) in both argument orders,
\* and no pair of colours gives more than 21.0.
C5_WhiteBlack ==
    RatioComputed =>
        /\ (fg = White /\ bg = Black) => Near(ratio, 21 * Scale, 1)
        /\ (fg = Black /\ bg = White) => Near(ratio, 21 * Scale, 1)
        /\ ratio <= 21 * Scale

C5_Witness == fpc = "done" /\ fg = Black /\ bg = White /\ ratio = 21 * Scale

\* C6: luminance is the weighted sum 0.2126 f(r/255) + 0.7152 f(g/255) +
\* 0.0722 f(b/255) of the piecewise-linearised channels: it lies in [0, 1], is
\* 0.0 for black and 1.0 for white (within 1e-6), is the weight itself for a
\* pure primary, and takes the formula's values on both sides of the 0.03928
\* branch (greys 10 and 11) and at mid grey, within the grid's accuracy 1e-5.
C6_Luminance ==
    fpc # "luminance" /\ fpc # "idle" =>
        /\ lum[1] >= 0 /\ lum[1] <= Scale
        /\ fg = Black => lum[1] = 0
        /\ fg = White => Near(lum[1], Scale, 1)
        /\ fg = <<MaxChannel, 0, 0>> => Near(lum[1], 212600, 1)
        /\ fg = <<0, MaxChannel, 0>> => Near(lum[1], 715200, 1)
        /\ fg = <<0, 0, MaxChannel>> => Near(lum[1], 72200, 1)
        /\ fg = Grey(10) => Near(lum[1], 3035, 10)
        /\ fg = Grey(11) => Near(lum[1], 3347, 10)
        /\ fg = Grey(128) => Near(lum[1], 215861, 10)

C6_Witness == fpc = "done" /\ fg = White /\ bg = Grey(11) /\ lum = <<Scale, 3345>>

\* C7: the generation loop ends after exactly NumSamples passes with exactly
\* NumSamples rows; every row has its six channels in 0..255, its ratio in
\* [1, 21] and its label in {0, 1}; a row once appended is never changed or
\* removed.
C7_RowOK(row) ==
    /\ \A ch \in {row.fg_r, row.fg_g, row.fg_b, row.bg_r, row.bg_g, row.bg_b} :
          ch \in 0..MaxChannel
    /\ row.contrast_ratio >= Scale /\ row.contrast_ratio <= 21 * Scale
    /\ row.label \in {0, 1}

C7_Counts ==
    /\ Len(rows) = iter
    /\ iter <= NumSamples
    /\ gpc \in {"save", "done"} => Len(rows) = NumSamples
    /\ gpc = "done" => csv = rows
    /\ \A k \in 1..Len(rows) : C7_RowOK(rows[k])

C7_RowsKept ==
    \A k \in 1..Len(rows) : k <= Len(rows') /\ rows'[k] = rows[k]

C7_GenerationLoop ==
    /\ []C7_Counts
    /\ [][C7_RowsKept]_vars
    /\ <>(gpc = "done" /\ iter = NumSamples /\ Len(csv) = NumSamples)

C7_Witness ==
    /\ gpc = "done" /\ iter = NumSamples /\ Len(csv) = NumSamples
    /\ csv[1] # csv[NumSamples]

(***************************************************************************)
(* Properties of test_api.py and retrain_model.py.                         *)
(***************************************************************************)
\* C8: every case of test_predict_endpoint that states an expectation
\* expects True exactly when its contrast_ratio field is >= 4.5, the label
\* rule of the dataset.
C8_ExpectationsFollowLabel ==
    apc = "predict" =>
        \A k \in 1..idx :
            test_cases[k].expected_comfortable # None =>
                ((test_cases[k].expected_comfortable = "True")
                    <=> (LabelOf(test_cases[k].contrast_ratio) = 1))

C8_Witness ==
    apc = "predict" /\ idx = Len(test_cases) /\ passed = Len(test_cases)

\* C9: after the merge every feedback row has given one row of the combined
\* table, labelled 1 for 'comfortable' and 0 for 'uncomfortable', and every
\* row of the combined table has a label in {0, 1} and channels in 0..255.
C9_RowOK(row) ==
    /\ \A ch \in {row.fg_r, row.fg_g, row.fg_b, row.bg_r, row.bg_g, row.bg_b} :
          ch \in 0..MaxChannel
    /\ row.label \in {0, 1}

C9_FeedbackLabelled ==
    rpc = "merged" =>
        /\ Len(combined) = Len(original) + Len(feedback)
        /\ \A k \in 1..Len(feedback) :
              /\ feedback[k] = "comfortable"
                    => combined[Len(original) + k].label = 1
              /\ feedback[k] = "uncomfortable"
                    => combined[Len(original) + k].label = 0
        /\ \A k \in 1..Len(combined) : C9_RowOK(combined[k])

\* C10: the phases of main run in the order health check, predict tests,
\* error-handling tests, performance tests, summary; after a failed health
\* check main has returned with no POST sent and no summary printed.
PhaseRank(req) ==
    IF req[1] = "GET" THEN 1
    ELSE IF \E k \in 1..Len(test_cases) : test_cases[k].name = req[3] THEN 2
    ELSE IF \E k \in 1..Len(error_cases) : error_cases[k].name = req[3] THEN 3
    ELSE 4

C10_PhaseOrder ==
    /\ Len(printed) <= Len(Banners)
    /\ \A k \in 1..Len(printed) : printed[k] = Banners[k]
    /\ \A j \in 1..Len(requests), k \in 1..Len(requests) :
          j < k => PhaseRank(requests[j]) <= PhaseRank(requests[k])
    /\ apc = "predict" => PhaseRank(requests[Len(requests)]) \in {1, 2}
    /\ apc = "error" => PhaseRank(requests[Len(requests)]) \in {2, 3}
    /\ apc = "perf" => PhaseRank(requests[Len(requests)]) \in {3, 4}
    /\ health_ok = "False" =>
          /\ apc = "returned"
          /\ requests = <<<<"GET", "/", "health">>>>
          /\ printed = <<"health">>
          /\ summary = <<>>
    /\ (apc = "returned" /\ health_ok = "True") =>
          /\ printed = Banners
          /\ summary # <<>>
          /\ Len(requests) = 1 + Len(test_cases) + Len(error_cases) + num_requests

C10_Witness ==
    /\ apc = "returned" /\ health_ok = "False"
    /\ Len(requests) = 1 /\ summary = <<>>

\* C11: in test_predict_endpoint, whatever the outcome of each request, the
\* cases are attempted once each in list order, every attempt adds one to
\* exactly one of passed and failed, so passed + failed is the number of
\* cases attempted, and the function returns True exactly when failed = 0.
C11_Attempted(k) ==
    /\ Len(requests) >= 1 + k
    /\ \A j \in 1..k :
          requests[1 + j] = <<"POST", "/predict", test_cases[j].name>>

C11_Counters ==
    /\ apc = "predict" =>
          /\ passed + failed = idx
          /\ passed >= 0 /\ failed >= 0
          /\ Len(requests) = 1 + idx
          /\ C11_Attempted(idx)
    /\ predict_ok # None =>
          /\ passed + failed = Len(test_cases)
          /\ C11_Attempted(Len(test_cases))
          /\ (predict_ok = "True") <=> (failed = 0)

C11_OneCounterPerCase ==
    (apc = "predict" /\ idx' = idx + 1) =>
        \/ passed' = passed + 1 /\ failed' = failed
        \/ failed' = failed + 1 /\ passed' = passed

C11_PredictCounters == []C11_Counters /\ [][C11_OneCounterPerCase]_vars

C11_Witness ==
    /\ predict_ok = "False" /\ apc = "error"
    /\ passed = 3 /\ failed = 2

(***************************************************************************)
(* Properties of clean_feedback.py.                                        *)
(***************************************************************************)
\* s with every maximal run of two or more spaces replaced by one comma.
RECURSIVE C12_DropSpaces(_)
C12_DropSpaces(s) ==
    IF s # <<>> /\ s[1] = " " THEN C12_DropSpaces(Tail(s)) ELSE s

RECURSIVE C12_RunsToComma(_)
C12_RunsToComma(s) ==
    IF Len(s) < 2 THEN s
    ELSE IF s[1] = " " /\ s[2] = " "
         THEN <<",">> \o C12_RunsToComma(C12_DropSpaces(s))
         ELSE <<s[1]>> \o C12_RunsToComma(Tail(s))

\* The line the claim describes: tabs to commas, runs of spaces to one comma
\* each, leading and trailing whitespace removed.
C12_Expected(line) == Strip(C12_RunsToComma(ReplaceTabs(line)))

C12_NoTabNoDoubleSpace(s) ==
    /\ \A i \in 1..Len(s) : s[i] # "\t"
    /\ \A i \in 1..(Len(s) - 1) : ~(s[i] = " " /\ s[i + 1] = " ")

\* C12: clean_feedback writes one output line per input line, in order; each
\* is the input line with every tab and every run of two or more spaces
\* replaced by a comma and the leading and trailing whitespace removed; no
\* output line holds a tab or two adjacent spaces.
C12_CleanedLines ==
    /\ Len(outfile) = cpos
    /\ cpc = "done" => Len(outfile) = Len(infile)
    /\ \A k \in 1..Len(outfile) :
          /\ outfile[k] = C12_Expected(infile[k]) \o <<"\n">>
          /\ C12_NoTabNoDoubleSpace(outfile[k])
====
